---- MODULE Spec2Model ----
(***************************************************************************)
(* Model of the LRU cache engine of main.go: the entry store (c.values),   *)
(* the recency queue (c.queue, a container/list), the RWMutex c.lock, the  *)
(* caller operations Get, Set, Delete, Clean, Size, and the expiry sweeper *)
(* goroutine started by NewLRUCache.                                       *)
(*                                                                         *)
(* A *cacheValue and the *list.Element it links to are allocated together  *)
(* in Set, so one node id stands for both.  Every section of code run      *)
(* under the write lock is one step taken while lock = the goroutine; a    *)
(* section under the read lock is a single read and is one step guarded    *)
(* by "no writer holds the lock".                                          *)
(***************************************************************************)
EXTENDS Integers, Sequences, FiniteSets, TLC

\* ----------------------------------------------------------------- bounds
\* Spec: two concurrent callers, expiry disabled (Configuration()'s default).
NumKeys == 2
MaxSize == 1
\* SeqSpec: one caller, expiry disabled.
SeqNumKeys == 3
SeqMaxSize == 2
NumVals == 2
\* TtlSpec: one caller and the sweeper, expiry enabled.
TtlNumKeys == 2
TtlMaxSize == 2
MaxTime == 3
DefaultTTL == 1
CleanInterval == 1
\* AllSpec: two concurrent callers and the sweeper, on a shorter clock.
AllMaxTime == 2
\* LinSpec: two concurrent callers making a bounded number of calls.
LinMaxCalls == 3

\* The callers (goroutines that call the cache) and the sweeper goroutine.
Callers == <<"c1", "c2">>
Procs == {Callers[i] : i \in 1..Len(Callers)}
OneCaller == {"c1"}
Sweeper == "sweeper"
Free == "free"

Max(a, b) == IF a > b THEN a ELSE b
Keys == 1..NumKeys
SeqKeys == 1..SeqNumKeys
TtlKeys == 1..TtlNumKeys
AllKeys == 1..Max(NumKeys, Max(SeqNumKeys, TtlNumKeys))
Vals == 1..NumVals
OneVal == {1}

\* Live nodes: at most maxSize + 1 in the queue plus one stale pointer per caller.
NodeIds == 1..(Max(MaxSize, Max(SeqMaxSize, TtlMaxSize)) + 1 + Len(Callers))

NoNode == 0
NoKey == 0
NoVal == 0
NoItem == [key |-> NoKey, ttl |-> 0]
NoArg == [key |-> NoKey, val |-> NoVal]
NoOut == [proc |-> Free, op |-> "none", key |-> NoKey, found |-> FALSE, val |-> NoVal]
NoCall == [by |-> Free, made |-> FALSE, count |-> 0]

VARIABLES
  values,          \* c.values: key -> *cacheValue (NoNode: no entry)
  data,            \* cacheValue.data of each node id
  item,            \* link.Value: the lruQueueItem {key, ttl} of each node id
  queue,           \* c.queue, front first
  maxSize,         \* c.maxSize
  defaultTTL,      \* c.defaultTTL
  deleteCallback,  \* c.deleteCallback # nil
  cleanInterval,   \* config.cleanInterval captured by the sweeper goroutine
  lock,            \* writer holding c.lock, or Free
  pc,              \* where each caller is in its operation
  arg,             \* key and value of the operation in progress
  value,           \* the operation's local *cacheValue (Get, Delete)
  ttl,             \* LRUitem.ttl computed by Set between its two sections
  out,             \* what the step just taken returned to its caller, if it returned a result
                   \* (a Set returns none: that it returned, and whether it found the key)
  evicted,         \* the key the step just taken evicted for capacity, if it did
  called,          \* the call of c.deleteCallback the step just taken made, if it made one
  now,             \* time.Now()
  spc,             \* where the sweeper goroutine is
  nextSweep,       \* when the sweeper's time.After fires
  deleted,         \* the sweeper's local count
  \* History of the calls, kept by the specifications that state claims about it.
  touched,         \* SeqSpec: the stored keys, most recently touched (Get hit, Set) first
  gotKey,          \* SeqSpec: key of the last Get hit, while that key stays stored
  gotFresh,        \* SeqSpec: no capacity eviction has happened since that Get
  untouched,       \* SeqSpec: the stored keys not touched since that Get
  lastSet,         \* SeqSpec: value of the most recent Set of each stored key
  calls,           \* LinSpec: the completed calls with their results
  keeps            \* which history the specification keeps: "none", "seq" or "lin"

vars == <<values, data, item, queue, maxSize, defaultTTL, deleteCallback,
          cleanInterval, lock, pc, arg, value, ttl, out, evicted, called, now, spc,
          nextSweep, deleted, touched, gotKey, gotFresh, untouched,
          lastSet, calls, keeps>>

config == <<maxSize, defaultTTL, deleteCallback, cleanInterval>>
sweeperVars == <<spc, nextSweep, deleted>>
seqHistory == <<touched, gotKey, gotFresh, untouched, lastSet>>
history == <<seqHistory, calls>>

\* ------------------------------------------------------ container/list
RECURSIVE IndexOf(_, _, _)
IndexOf(q, n, i) ==
  IF i > Len(q) THEN 0 ELSE IF q[i] = n THEN i ELSE IndexOf(q, n, i + 1)

InQueue(q, n) == \E i \in 1..Len(q) : q[i] = n

\* list.Remove: a no-op unless the element belongs to this list.
Remove(q, n) ==
  LET i == IndexOf(q, n, 1)
  IN IF i = 0 THEN q ELSE SubSeq(q, 1, i - 1) \o SubSeq(q, i + 1, Len(q))

\* Mutant: the element is not promoted.
MoveToFrontStays(q, n) == q

\* list.MoveToFront: a no-op unless the element belongs to this list.
MoveToFront(q, n) == IF InQueue(q, n) THEN <<n>> \o Remove(q, n) ELSE q

PushFront(q, n) == <<n>> \o q

Back(q) == q[Len(q)]

\* ------------------------------------------------------ allocation
\* Node ids some pointer of the program still reaches.
Reachable(vs, q, loc) ==
  {vs[k] : k \in AllKeys} \cup {q[i] : i \in 1..Len(q)} \cup {loc[p] : p \in Procs}

Live == Reachable(values, queue, value) \ {NoNode}

\* &cacheValue{...} and PushFront allocate fresh objects: an id nothing reaches.
NewNode == CHOOSE n \in NodeIds \ Live : \A m \in NodeIds \ Live : n <= m

\* The pointers of the program, in a fixed order: the queue front to back, the
\* entry store key by key, the callers' locals.
Pointers(vs, q, loc) ==
  q \o [k \in 1..Cardinality(AllKeys) |-> vs[k]] \o [i \in 1..Len(Callers) |-> loc[Callers[i]]]

\* Go code cannot observe an address, only whether two pointers are equal: the
\* objects are numbered in the order the pointers reach them.
Address(refs, n) ==
  IF n = NoNode THEN NoNode
  ELSE Cardinality({refs[j] : j \in 1..IndexOf(refs, n, 1)} \ {NoNode})

Addresses(refs) == [n \in NodeIds \cup {NoNode} |-> Address(refs, n)]

\* Unreachable objects are garbage: their fields are no longer part of the state.
Collect(f, none, at) ==
  [m \in NodeIds |->
     LET ns == {n \in NodeIds : at[n] = m}
     IN IF ns = {} THEN none ELSE f[CHOOSE n \in ns : TRUE]]

\* ------------------------------------------------------ construction
InitWith(ms, dttl, cb, ci, h) ==
  /\ values = [k \in AllKeys |-> NoNode]
  /\ data = [n \in NodeIds |-> NoVal]
  /\ item = [n \in NodeIds |-> NoItem]
  /\ queue = <<>>
  /\ maxSize = ms
  /\ defaultTTL = dttl
  /\ deleteCallback = cb
  /\ cleanInterval = ci
  /\ lock = Free
  /\ pc = [p \in Procs |-> "idle"]
  /\ arg = [p \in Procs |-> NoArg]
  /\ value = [p \in Procs |-> NoNode]
  /\ ttl = [p \in Procs |-> 0]
  /\ out = NoOut
  /\ evicted = NoKey
  /\ called = NoCall
  /\ now = 0
  /\ spc = IF dttl >= 0 THEN "wait" ELSE "off"
  /\ nextSweep = IF dttl >= 0 THEN ci ELSE 0
  /\ deleted = 0
  /\ touched = <<>>
  /\ gotKey = NoKey
  /\ gotFresh = FALSE
  /\ untouched = {}
  /\ lastSet = [k \in AllKeys |-> NoVal]
  /\ calls = <<>>
  /\ keeps = h

\* Configuration() with SetMaxSize and SetDeleteCallback: defaultTTL stays -1.
Init == InitWith(MaxSize, -1, TRUE, CleanInterval, "none")

\* The heap after a step: the new store, queue and locals, garbage dropped.
Store(vs, q, loc, d, it) ==
  \E at \in {Addresses(Pointers(vs, q, loc))} :
     /\ values' = [k \in AllKeys |-> at[vs[k]]]
     /\ queue' = [i \in 1..Len(q) |-> at[q[i]]]
     /\ value' = [p \in Procs |-> at[loc[p]]]
     /\ data' = Collect(d, NoVal, at)
     /\ item' = Collect(it, NoItem, at)

heap == <<values, data, item, queue, value>>

\* The step returns no result to a caller, evicts nothing and calls no callback.
Quiet == out' = NoOut /\ evicted' = NoKey /\ called' = NoCall

\* Mutant: the callback is called with count 0 whatever was removed.
CallsWithZero(g, n) ==
  /\ called' = [by |-> g, made |-> TRUE, count |-> 0]
  /\ out' = NoOut
  /\ evicted' = NoKey

\* Mutant: the lock is still held when the callback is invoked.
UnlockAfterCallback(l) == l

\* c.lock.Unlock() ahead of c.deleteCallback, in Delete and in cleanInterval
Unlock(l) == Free

\* The step is goroutine g calling c.deleteCallback(n).
Calls(g, n) ==
  /\ called' = [by |-> g, made |-> TRUE, count |-> n]
  /\ out' = NoOut
  /\ evicted' = NoKey

\* The step returns to caller p, with a result if the operation has one.
Returns(p, o, k, f, v) ==
  /\ out' = [proc |-> p, op |-> o, key |-> k, found |-> f, val |-> v]
  /\ evicted' = NoKey
  /\ called' = NoCall

\* ------------------------------------------------------------------ Get
\* Mutant: the lookup reports a missing key as found and a stored key as missing.
FoundInverted(vs, k) == vs[k] = NoNode

\* value, found := c.values[key]
Found(vs, k) == vs[k] # NoNode

\* RLock; value, found := c.values[key]; RUnlock; if !found return nil, false
GetLookup(p, k) ==
  /\ pc[p] = "idle"
  /\ lock = Free
  /\ IF ~Found(values, k)
       THEN /\ Returns(p, "get", k, FALSE, NoVal)
            /\ UNCHANGED <<pc, arg, heap>>
       ELSE /\ Quiet
            /\ arg' = [arg EXCEPT ![p] = [key |-> k, val |-> NoVal]]
            /\ pc' = [pc EXCEPT ![p] = "get_lock"]
            /\ Store(values, queue, [value EXCEPT ![p] = values[k]], data, item)
  /\ UNCHANGED <<config, lock, ttl, now, sweeperVars>>

\* c.lock.Lock()
GetLock(p) ==
  /\ pc[p] = "get_lock"
  /\ lock = Free
  /\ lock' = p
  /\ pc' = [pc EXCEPT ![p] = "get_move"]
  /\ Quiet
  /\ UNCHANGED <<heap, config, arg, ttl, now, sweeperVars>>

\* c.queue.MoveToFront(value.link); c.lock.Unlock()
GetMove(p) ==
  /\ pc[p] = "get_move"
  /\ lock = p
  /\ Store(values, MoveToFront(queue, value[p]), value, data, item)
  /\ lock' = Free
  /\ pc' = [pc EXCEPT ![p] = "get_ret"]
  /\ Quiet
  /\ UNCHANGED <<config, arg, ttl, now, sweeperVars>>

\* return value.data, true: value.data is read after the lock is released
GetReturn(p) ==
  /\ pc[p] = "get_ret"
  /\ Returns(p, "get", arg[p].key, TRUE, data[value[p]])
  /\ Store(values, queue, [value EXCEPT ![p] = NoNode], data, item)
  /\ pc' = [pc EXCEPT ![p] = "idle"]
  /\ arg' = [arg EXCEPT ![p] = NoArg]
  /\ UNCHANGED <<config, lock, ttl, now, sweeperVars>>

\* ------------------------------------------------------------------ Set
\* c.lock.Lock()
SetLock(p, k, v) ==
  /\ pc[p] = "idle"
  /\ lock = Free
  /\ lock' = p
  /\ arg' = [arg EXCEPT ![p] = [key |-> k, val |-> v]]
  /\ Quiet
  /\ pc' = [pc EXCEPT ![p] = "set_check"]
  /\ UNCHANGED <<heap, config, ttl, now, sweeperVars>>

\* Mutant: Set of a stored key writes the value to every entry.
ReplaceDataOfAll(d, n, v) == [m \in NodeIds |-> v]

\* Mutant: Set of a stored key leaves the old value.
ReplaceDataKeepsOld(d, n, v) == d

\* c.values[key].data = value
ReplaceData(d, n, v) == [d EXCEPT ![n] = v]

\* Mutant: the expiry is one unit later than the default TTL gives.
ExpiryLate(t, d) == t + d + 1

\* time.Now().Add(c.defaultTTL)
Expiry(t, d) == t + d

\* if found { data = value; MoveToFront; Unlock; return }; Unlock;
\* LRUitem := &lruQueueItem{key, time.Now().Add(c.defaultTTL)}
SetCheck(p) ==
  /\ pc[p] = "set_check"
  /\ lock = p
  /\ LET k == arg[p].key
         n == values[k]
     IN IF n # NoNode
          THEN /\ Store(values, MoveToFront(queue, n), value,
                        ReplaceData(data, n, arg[p].val), item)
               /\ Returns(p, "set", k, TRUE, NoVal)
               /\ pc' = [pc EXCEPT ![p] = "idle"]
               /\ arg' = [arg EXCEPT ![p] = NoArg]
               /\ ttl' = ttl
          ELSE /\ ttl' = [ttl EXCEPT ![p] = Expiry(now, defaultTTL)]
               /\ pc' = [pc EXCEPT ![p] = "set_lock2"]
               /\ Quiet
               /\ UNCHANGED <<arg, heap>>
  /\ lock' = Free
  /\ UNCHANGED <<config, now, sweeperVars>>

\* c.lock.Lock() (the second section)
SetLock2(p) ==
  /\ pc[p] = "set_lock2"
  /\ lock = Free
  /\ lock' = p
  /\ pc' = [pc EXCEPT ![p] = "set_push"]
  /\ Quiet
  /\ UNCHANGED <<heap, config, arg, ttl, now, sweeperVars>>

\* unsafeDelete(key, value): c.queue.Remove(value.link); delete(c.values, key)
unsafeDeleteQueue(q, n) == Remove(q, n)

\* Mutant: an unsafeDelete that removes the node and keeps the entry.
unsafeDeleteValuesKeeps(vs, k) == vs

unsafeDeleteValues(vs, k) == [vs EXCEPT ![k] = NoNode]

\* Mutant: the capacity check is off by one.
OverflowsOffByOne(q, ms) == Len(q) > ms + 1

\* if c.queue.Len() > c.maxSize
Overflows(q, ms) == Len(q) > ms

\* item := c.queue.Back().Value.(*lruQueueItem); item.key
EvictionKey(q, it) == it[Back(q)].key

\* cachedItem := c.values[item.key] is nil when the key of the queue's back node
\* has no entry: unsafeDelete(item.key, nil) dereferences it (value.link).
EvictPanics(vs, q, it) == vs[EvictionKey(q, it)] = NoNode

\* queueItem := PushFront(LRUitem); c.values[key] = &cacheValue{value, queueItem};
\* if c.queue.Len() > c.maxSize { evict the back }; Unlock
SetPush(p) ==
  /\ pc[p] = "set_push"
  /\ lock = p
  /\ LET k == arg[p].key
         n == NewNode
         q1 == PushFront(queue, n)
         it1 == [item EXCEPT ![n] = [key |-> k, ttl |-> ttl[p]]]
         vs1 == [values EXCEPT ![k] = n]
         d1 == [data EXCEPT ![n] = arg[p].val]
         done == /\ pc' = [pc EXCEPT ![p] = "idle"]
                 /\ lock' = Free
                 /\ arg' = [arg EXCEPT ![p] = NoArg]
                 /\ ttl' = [ttl EXCEPT ![p] = 0]
                 /\ out' = [proc |-> p, op |-> "set", key |-> k, found |-> FALSE, val |-> NoVal]
                 /\ called' = NoCall
     IN IF Overflows(q1, maxSize)
          THEN IF EvictPanics(vs1, q1, it1)
                 THEN /\ Store(vs1, q1, value, d1, it1)
                      /\ pc' = [pc EXCEPT ![p] = "panic"]
                      /\ Quiet
                      /\ UNCHANGED <<lock, arg, ttl>>
                 ELSE LET bk == EvictionKey(q1, it1)
                      IN /\ Store(unsafeDeleteValues(vs1, bk),
                                  unsafeDeleteQueue(q1, vs1[bk]), value, d1, it1)
                         /\ evicted' = bk
                         /\ done
          ELSE /\ Store(vs1, q1, value, d1, it1)
               /\ evicted' = NoKey
               /\ done
  /\ UNCHANGED <<config, now, sweeperVars>>

\* --------------------------------------------------------------- Delete
\* RLock; value, found := c.values[key]; RUnlock; if found { ... }
DeleteLookup(p, k) ==
  /\ pc[p] = "idle"
  /\ lock = Free
  /\ IF values[k] = NoNode
       THEN /\ Quiet
            /\ UNCHANGED <<pc, arg, heap>>
       ELSE /\ Quiet
            /\ arg' = [arg EXCEPT ![p] = [key |-> k, val |-> NoVal]]
            /\ pc' = [pc EXCEPT ![p] = "del_lock"]
            /\ Store(values, queue, [value EXCEPT ![p] = values[k]], data, item)
  /\ UNCHANGED <<config, lock, ttl, now, sweeperVars>>

\* c.lock.Lock()
DeleteLock(p) ==
  /\ pc[p] = "del_lock"
  /\ lock = Free
  /\ lock' = p
  /\ pc' = [pc EXCEPT ![p] = "del_rm"]
  /\ Quiet
  /\ UNCHANGED <<heap, config, arg, ttl, now, sweeperVars>>

\* c.unsafeDelete(key, value); c.lock.Unlock()
DeleteRemove(p) ==
  /\ pc[p] = "del_rm"
  /\ lock = p
  /\ Store(unsafeDeleteValues(values, arg[p].key),
           unsafeDeleteQueue(queue, value[p]),
           [value EXCEPT ![p] = NoNode], data, item)
  /\ lock' = Unlock(lock)
  /\ IF deleteCallback
       THEN /\ pc' = [pc EXCEPT ![p] = "del_cb"]
            /\ Quiet
            /\ UNCHANGED <<arg>>
       ELSE /\ pc' = [pc EXCEPT ![p] = "idle"]
            /\ arg' = [arg EXCEPT ![p] = NoArg]
            /\ Quiet
  /\ UNCHANGED <<config, ttl, now, sweeperVars>>

\* c.deleteCallback(1)
DeleteCallback(p) ==
  /\ pc[p] = "del_cb"
  /\ pc' = [pc EXCEPT ![p] = "idle"]
  /\ arg' = [arg EXCEPT ![p] = NoArg]
  /\ Calls(p, 1)
  /\ UNCHANGED <<heap, config, lock, ttl, now, sweeperVars>>

\* ---------------------------------------------------------------- Clean
\* c.lock.Lock()
CleanLock(p) ==
  /\ pc[p] = "idle"
  /\ lock = Free
  /\ lock' = p
  /\ Quiet
  /\ pc' = [pc EXCEPT ![p] = "clean"]
  /\ UNCHANGED <<heap, config, arg, ttl, now, sweeperVars>>

\* Mutant: Clean keeps the map it had.
MakeValuesKeepsAll(vs) == vs

\* c.values = make(map[interface{}]*cacheValue)
MakeValues(vs) == [k \in AllKeys |-> NoNode]

\* c.values = make(map); c.queue = list.New(); c.lock.Unlock()
CleanReset(p) ==
  /\ pc[p] = "clean"
  /\ lock = p
  /\ Store(MakeValues(values), <<>>, value, data, item)
  /\ lock' = Free
  /\ Quiet
  /\ pc' = [pc EXCEPT ![p] = "idle"]
  /\ UNCHANGED <<config, arg, ttl, now, sweeperVars>>

\* ----------------------------------------------------------------- Size
\* c.lock.Lock(); defer c.lock.Unlock()
SizeLock(p) ==
  /\ pc[p] = "idle"
  /\ lock = Free
  /\ lock' = p
  /\ Quiet
  /\ pc' = [pc EXCEPT ![p] = "size"]
  /\ UNCHANGED <<heap, config, arg, ttl, now, sweeperVars>>

\* return c.queue.Len()
SizeReturn(p) ==
  /\ pc[p] = "size"
  /\ lock = p
  /\ lock' = Free
  /\ Returns(p, "size", NoKey, FALSE, Len(queue))
  /\ pc' = [pc EXCEPT ![p] = "idle"]
  /\ UNCHANGED <<heap, config, arg, ttl, now, sweeperVars>>

\* -------------------------------------------------------------- sweeper
\* <-time.After(config.cleanInterval) has fired; cleanInterval(): c.lock.Lock()
SweepLock ==
  /\ spc = "wait"
  /\ now >= nextSweep
  /\ lock = Free
  /\ lock' = Sweeper
  /\ spc' = "scan"
  /\ Quiet
  /\ UNCHANGED <<heap, config, pc, arg, ttl, now, nextSweep, deleted>>

\* Mutant: an item is expired from the moment its ttl is reached.
ExpiredAtOrAfter(it, t) == it.ttl - t <= 0

\* item.ttl.Sub(time.Now()) < 0
Expired(it, t) == it.ttl - t < 0

\* The keys the pass deletes: for key, value := range c.values { if expired ... }
SweepKeys == {k \in AllKeys : values[k] # NoNode /\ Expired(item[values[k]], now)}

RECURSIVE RemoveAll(_, _)
RemoveAll(q, ns) ==
  IF ns = {} THEN q
  ELSE LET n == CHOOSE m \in ns : TRUE IN RemoveAll(unsafeDeleteQueue(q, n), ns \ {n})

\* the loop of cleanInterval under the lock; c.lock.Unlock()
SweepScan ==
  /\ spc = "scan"
  /\ lock = Sweeper
  /\ LET ks == SweepKeys
     IN /\ Store([k \in AllKeys |-> IF k \in ks THEN NoNode ELSE values[k]],
                 RemoveAll(queue, {values[k] : k \in ks}), value, data, item)
        /\ deleted' = Cardinality(ks)
  /\ lock' = Unlock(lock)
  /\ IF deleteCallback
       THEN /\ spc' = "cb"
            /\ nextSweep' = nextSweep
       ELSE /\ spc' = "wait"
            /\ nextSweep' = now + cleanInterval
  /\ Quiet
  /\ UNCHANGED <<config, pc, arg, ttl, now>>

\* c.deleteCallback(deleted); back to <-time.After(config.cleanInterval)
SweepCallback ==
  /\ spc = "cb"
  /\ spc' = "wait"
  /\ nextSweep' = now + cleanInterval
  /\ deleted' = 0
  /\ Calls(Sweeper, deleted)
  /\ UNCHANGED <<heap, config, lock, pc, arg, ttl, now>>

\* Time passes.  The timer fires on time and a pass is short against the unit
\* of the clock: the clock does not advance while a pass is due or running.
TickTo(t) ==
  /\ now < t
  /\ spc = "wait" => now < nextSweep
  /\ spc \in {"off", "wait"}
  /\ now' = now + 1
  /\ Quiet
  /\ UNCHANGED <<heap, config, lock, pc, arg, ttl, sweeperVars>>

\* The clock of TtlSpec.
Tick == TickTo(MaxTime)

\* ------------------------------------------------------------- history
Touch(s, k) == <<k>> \o SelectSeq(s, LAMBDA x : x # k)

Forget(s, k) == SelectSeq(s, LAMBDA x : x # k)

Stored(vs) == {k \in AllKeys : vs[k] # NoNode}

\* SeqSpec: the touches and the values set, call by call.
SeqRecord(p) ==
  LET k == arg[p].key
  IN CASE pc[p] = "get_ret" ->
            /\ touched' = Touch(touched, k)
            /\ gotKey' = k
            /\ gotFresh' = TRUE
            /\ untouched' = Stored(values) \ {k}
            /\ lastSet' = lastSet
       [] pc[p] = "set_check" /\ values[k] # NoNode ->
            /\ touched' = Touch(touched, k)
            /\ UNCHANGED <<gotKey, gotFresh>>
            /\ untouched' = untouched \ {k}
            /\ lastSet' = [lastSet EXCEPT ![k] = arg[p].val]
       [] pc[p] = "set_push" ->
            /\ touched' = Forget(Touch(touched, k), evicted')
            /\ gotKey' = IF evicted' = gotKey THEN NoKey ELSE gotKey
            /\ gotFresh' = (gotFresh /\ evicted' = NoKey)
            /\ untouched' = untouched \ {k, evicted'}
            /\ lastSet' = [j \in AllKeys |->
                             IF j = evicted' THEN NoVal
                             ELSE IF j = k THEN arg[p].val ELSE lastSet[j]]
       [] pc[p] = "del_rm" ->
            /\ touched' = Forget(touched, k)
            /\ gotKey' = IF gotKey = k THEN NoKey ELSE gotKey
            /\ gotFresh' = (gotFresh /\ gotKey # k)
            /\ untouched' = untouched \ {k}
            /\ lastSet' = [lastSet EXCEPT ![k] = NoVal]
       [] pc[p] = "clean" ->
            /\ touched' = <<>>
            /\ gotKey' = NoKey
            /\ gotFresh' = FALSE
            /\ untouched' = {}
            /\ lastSet' = [j \in AllKeys |-> NoVal]
       [] OTHER -> UNCHANGED seqHistory

Call(o, k, v, f, r) == [op |-> o, key |-> k, val |-> v, found |-> f, res |-> r]

InProgress == {q \in Procs : pc[q] # "idle"}

\* LinSpec: every call that completes, with what it returned; at most
\* LinMaxCalls calls are made.  k is the key of a call that starts with this step.
\* For a Clean, res is the number of other calls in progress when it completed.
LinRecord(p, k) ==
  /\ pc[p] = "idle" => Len(calls) + Cardinality(InProgress) < LinMaxCalls
  /\ calls' =
       CASE pc[p] = "idle" /\ pc'[p] = "idle" /\ out'.op = "get" ->
              Append(calls, Call("get", k, NoVal, FALSE, NoVal))
         [] pc[p] = "idle" /\ pc'[p] = "idle" /\ out'.op # "get" ->
              Append(calls, Call("delete", k, NoVal, FALSE, NoVal))
         [] pc[p] = "get_ret" ->
              Append(calls, Call("get", arg[p].key, NoVal, TRUE, out'.val))
         [] pc[p] \in {"set_check", "set_push"} /\ pc'[p] = "idle" ->
              Append(calls, Call("set", arg[p].key, arg[p].val, FALSE, NoVal))
         [] pc[p] \in {"del_rm", "del_cb"} /\ pc'[p] = "idle" ->
              Append(calls, Call("delete", arg[p].key, NoVal, TRUE, NoVal))
         [] pc[p] = "clean" ->
              Append(calls, Call("clean", NoKey, NoVal, FALSE, Cardinality(InProgress \ {p})))
         [] pc[p] = "size" ->
              Append(calls, Call("size", NoKey, NoVal, FALSE, out'.val))
         [] OTHER -> calls

\* What the specification records of a step of caller p.
Record(p, k) ==
  /\ keeps' = keeps
  /\ CASE keeps = "seq" -> SeqRecord(p) /\ calls' = calls
       [] keeps = "lin" -> LinRecord(p, k) /\ UNCHANGED seqHistory
       [] OTHER -> UNCHANGED history

\* The steps of a Get of caller p, with keys from K.
GetSteps(p, K) ==
  \/ \E k \in K : GetLookup(p, k) /\ Record(p, k)
  \/ GetLock(p) /\ Record(p, NoKey)
  \/ GetMove(p) /\ Record(p, NoKey)
  \/ GetReturn(p) /\ Record(p, NoKey)

\* The steps of a Set of caller p, with keys from K and values from V.
SetSteps(p, K, V) ==
  \/ \E k \in K, v \in V : SetLock(p, k, v) /\ Record(p, k)
  \/ SetCheck(p) /\ Record(p, NoKey)
  \/ SetLock2(p) /\ Record(p, NoKey)
  \/ SetPush(p) /\ Record(p, NoKey)

\* The steps of a Delete of caller p, with keys from K.
DeleteSteps(p, K) ==
  \/ \E k \in K : DeleteLookup(p, k) /\ Record(p, k)
  \/ DeleteLock(p) /\ Record(p, NoKey)
  \/ DeleteRemove(p) /\ Record(p, NoKey)
  \/ DeleteCallback(p) /\ Record(p, NoKey)

\* The steps of a Clean and of a Size of caller p.
CleanSteps(p) ==
  \/ CleanLock(p) /\ Record(p, NoKey)
  \/ CleanReset(p) /\ Record(p, NoKey)

SizeSteps(p) ==
  \/ SizeLock(p) /\ Record(p, NoKey)
  \/ SizeReturn(p) /\ Record(p, NoKey)

\* One step of caller p, with keys from K and values from V.
Step(p, K, V) ==
  \/ GetSteps(p, K)
  \/ SetSteps(p, K, V)
  \/ DeleteSteps(p, K)
  \/ CleanSteps(p)
  \/ SizeSteps(p)

\* Concurrent callers on a cache without expiry.
Next == \E p \in Procs : Step(p, Keys, OneVal)

Spec == Init /\ [][Next]_vars

\* One caller on a cache without expiry.
SeqInit == InitWith(SeqMaxSize, -1, TRUE, CleanInterval, "seq")

SeqNext == \E p \in OneCaller : Step(p, SeqKeys, Vals)

SeqSpec == SeqInit /\ [][SeqNext]_vars

\* One caller and the sweeper on a cache with expiry.
TtlInit == InitWith(TtlMaxSize, DefaultTTL, TRUE, CleanInterval, "none")

TtlNext ==
  \/ \E p \in OneCaller : Step(p, TtlKeys, OneVal)
  \/ SweepLock /\ UNCHANGED <<history, keeps>>
  \/ SweepScan /\ UNCHANGED <<history, keeps>>
  \/ SweepCallback /\ UNCHANGED <<history, keeps>>
  \/ Tick /\ UNCHANGED <<history, keeps>>

TtlSpec == TtlInit /\ [][TtlNext]_vars

\* Concurrent callers that Get, Set, Delete and Clean, and the sweeper.
AllNext ==
  \/ \E p \in Procs :
       GetSteps(p, TtlKeys) \/ SetSteps(p, TtlKeys, OneVal) \/ DeleteSteps(p, TtlKeys) \/ CleanSteps(p)
  \/ SweepLock /\ UNCHANGED <<history, keeps>>
  \/ SweepScan /\ UNCHANGED <<history, keeps>>
  \/ SweepCallback /\ UNCHANGED <<history, keeps>>
  \/ TickTo(AllMaxTime) /\ UNCHANGED <<history, keeps>>

AllSpec == TtlInit /\ [][AllNext]_vars

\* Concurrent callers making at most LinMaxCalls calls, the calls recorded.
LinInit == InitWith(MaxSize, -1, TRUE, CleanInterval, "lin")

LinSpec == LinInit /\ [][Next]_vars

\* Concurrent callers that only Set and Delete.
DelNext == \E p \in Procs : SetSteps(p, Keys, OneVal) \/ DeleteSteps(p, Keys)

DelSpec == Init /\ [][DelNext]_vars

\* Concurrent callers, each scheduled again and again and served the lock in turn.
FairSpec == Spec /\ \A p \in Procs : SF_vars(Step(p, Keys, OneVal))
\* ------------------------------------------------------------------ claims
NodesOf(k) == {i \in 1..Len(queue) : item[queue[i]].key = k}

\* C1: under any interleaving of Get, Set and Delete calls, whenever no operation
\* holds the lock the recency queue holds exactly one node per key of the entry
\* store, and the entry store holds the key of every queue node.
C1_OneNodePerStoredKey ==
  lock = Free =>
    /\ \A k \in Stored(values) : Cardinality(NodesOf(k)) = 1
    /\ \A i \in 1..Len(queue) : item[queue[i]].key \in Stored(values)

\* C2: a Set call never panics: its capacity eviction never dereferences a
\* missing entry for the key of the queue's back node.
C2_SetNeverPanics == \A p \in Procs : pc[p] # "panic"

\* C3: for maxSize >= 1, whenever the lock is free (so after every Set that has
\* completed) the value Size() would return is at most maxSize, and every value
\* Size() did return is at most maxSize.
C3_SizeAtMostMaxSize ==
  /\ lock = Free => Len(queue) <= maxSize
  /\ out.op = "size" => out.val <= maxSize

\* A Set has just completed with a capacity eviction and the cache is full.
C3_Witness == evicted # NoKey /\ lock = Free /\ Len(queue) = maxSize

Last(s) == s[Len(s)]

\* C4: in a sequential history, when a Set of a new key makes the entry count
\* exceed maxSize, the key evicted is the stored key whose last touch (Get hit
\* or Set) is the oldest.
C4_EvictsLeastRecentlyTouched ==
  [][\A p \in OneCaller :
       (pc[p] = "set_push" /\ Cardinality(Stored(values) \cup {arg[p].key}) > maxSize)
         => evicted' = Last(Touch(touched, arg[p].key))]_vars

\* Capacity 2: Set 1, Set 2, a touch of 1, Set 3 has just evicted 2 and kept 1 and 3.
C4_Witness == evicted = 2 /\ Stored(values) = {1, 3} /\ touched = <<3, 1>>

\* ---- an atomic LRU cache: a sequence of entries, most recently used first
AFind(st, k) ==
  LET is == {i \in 1..Len(st) : st[i].key = k}
  IN IF is = {} THEN 0 ELSE CHOOSE i \in is : TRUE

ADrop(st, i) == SubSeq(st, 1, i - 1) \o SubSeq(st, i + 1, Len(st))

\* The state after call c and whether c's recorded result is the atomic cache's.
AApply(st, c) ==
  LET i == AFind(st, c.key)
  IN CASE c.op = "get" ->
            IF i = 0 THEN [st |-> st, ok |-> ~c.found]
            ELSE [st |-> <<st[i]>> \o ADrop(st, i), ok |-> c.found /\ c.res = st[i].val]
       [] c.op = "set" ->
            LET e == [key |-> c.key, val |-> c.val]
                q == IF i = 0 THEN <<e>> \o st ELSE <<e>> \o ADrop(st, i)
            IN [st |-> IF Len(q) > maxSize THEN SubSeq(q, 1, Len(q) - 1) ELSE q, ok |-> TRUE]
       [] c.op = "delete" -> [st |-> IF i = 0 THEN st ELSE ADrop(st, i), ok |-> TRUE]
       [] c.op = "clean" -> [st |-> <<>>, ok |-> TRUE]
       [] OTHER -> [st |-> st, ok |-> c.res = Len(st)]

RECURSIVE ARun(_, _, _)
ARun(st, f, i) ==
  IF i > Len(calls) THEN [st |-> st, ok |-> TRUE]
  ELSE LET r == AApply(st, calls[f[i]])
       IN IF r.ok THEN ARun(r.st, f, i + 1) ELSE r

Orders(n) == {f \in [1..n -> 1..n] : \A i, j \in 1..n : f[i] = f[j] => i = j}

\* The cache as its callers see it: the stored keys with their values, in the
\* order of their nodes in the queue.
EntryNodes == SelectSeq(queue, LAMBDA n : values[item[n].key] = n)

CacheState == [i \in 1..Len(EntryNodes) |->
                 [key |-> item[EntryNodes[i]].key, val |-> data[EntryNodes[i]]]]

\* C5: once the calls made have all returned, the stored keys, their values and
\* their recency order, and the results returned, are those of the same calls
\* run one at a time, in some order, on an atomic LRU cache.
C5_Serializable ==
  InProgress = {} =>
    \E f \in Orders(Len(calls)) :
      LET r == ARun(<<>>, f, 1)
      IN /\ r.ok
         /\ r.st = CacheState
         /\ Stored(values) = {r.st[i].key : i \in 1..Len(r.st)}

\* C6: with TTL enabled, a Get issued when the entry of its key has reached its
\* expiry (now >= expiresAt) does not find the entry, swept or not.
C6_ExpiredEntryNotFound ==
  [][\A p \in OneCaller, k \in AllKeys :
       (pc[p] = "idle" /\ k \in Stored(values) /\ item[values[k]].ttl <= now)
         => ~(pc'[p] = "get_lock" /\ arg'[p].key = k)]_vars

PassEnds == spc = "scan" /\ spc' # "scan"

\* C7 as claimed: a sweep pass removes exactly the entries whose expiresAt is at
\* or before the time of the pass, and an entry is out of the store once the
\* clock is more than one cleanupInterval past its expiry.
C7_PassRemovesExpiredAtOrBefore ==
  [][/\ PassEnds =>
          \A k \in AllKeys :
            k \notin Stored(values') <=>
              (k \notin Stored(values) \/ item[values[k]].ttl <= now)
     /\ \A k \in Stored(values') : now' <= item'[values'[k]].ttl + cleanInterval]_vars

\* C7 as amended: a sweep pass removes exactly the entries whose expiresAt is
\* strictly before the time of the pass (an entry whose expiresAt is the time of
\* the pass stays), so no entry that expired before the pass is stored after it;
\* and the next pass is always due at most one cleanupInterval ahead.
C7_PassRemovesExpiredBefore ==
  [][/\ PassEnds =>
          /\ \A k \in AllKeys :
               k \notin Stored(values') <=>
                 (k \notin Stored(values) \/ item[values[k]].ttl < now)
          /\ \A k \in Stored(values') : item'[values'[k]].ttl >= now'
          /\ deleted' = Cardinality(Stored(values) \ Stored(values'))
     /\ nextSweep' <= now' + cleanInterval]_vars

\* A pass has removed an expired entry, its callback is still to come, and an
\* entry that expires right now is stored.
C7_Witness ==
  /\ spc = "cb"
  /\ deleted >= 1
  /\ \E k \in Stored(values) : item[values[k]].ttl = now

\* C8: under any interleaving of Deletes (and the Sets that store the entries),
\* a Delete that goes on to invoke the callback (with count 1) removed an entry
\* in its locked section.
C8_DeleteNotifiesOnlyRemovals ==
  [][\A p \in Procs :
       (pc[p] = "del_rm" /\ pc'[p] = "del_cb") => arg[p].key \in Stored(values)]_vars

\* C9: under fair scheduling every operation begun returns and the lock, once
\* held, is released.
C9_EveryOperationReturns ==
  /\ \A p \in Procs : (pc[p] # "idle") ~> (pc[p] = "idle")
  /\ (lock # Free) ~> (lock = Free)

\* The Get part of C10: a Get that misses has a key that is not stored; a Get
\* that hits returns the value of the most recent Set of its key and leaves the
\* key's node at the front of the queue.
GetReturnsLastSet ==
  /\ (out'.op = "get" /\ ~out'.found) => lastSet[out'.key] = NoVal
  /\ (out'.op = "get" /\ out'.found) =>
       /\ out'.val = lastSet[out'.key]
       /\ out'.val # NoVal
       /\ queue' # <<>>
       /\ item'[Head(queue')].key = out'.key
       /\ values'[out'.key] = Head(queue')

FirstEvictionAfterGet(p) ==
  pc[p] = "set_push" /\ evicted' # NoKey /\ gotKey # NoKey /\ gotFresh

\* C10 as claimed: the first capacity eviction after a Get hit removes another
\* key whenever another key is stored.
C10_NextEvictionSparesGotKey ==
  [][/\ GetReturnsLastSet
     /\ \A p \in OneCaller :
          (FirstEvictionAfterGet(p) /\ Stored(values) \ {gotKey} # {})
            => evicted' # gotKey]_vars

\* C10 as amended: the first capacity eviction after a Get hit removes another
\* key whenever another key that has not been touched since that Get is stored.
C10_NextEvictionSparesGotKeyIfUntouched ==
  [][/\ GetReturnsLastSet
     /\ \A p \in OneCaller :
          (FirstEvictionAfterGet(p) /\ untouched # {}) => evicted' # gotKey]_vars

\* The first eviction after a Get hit has just removed a key not touched since
\* the Get and spared the key that was got.
C10_Witness ==
  /\ evicted # NoKey
  /\ gotKey # NoKey
  /\ ~gotFresh
  /\ evicted # gotKey
  /\ gotKey \in Stored(values)

\* C11: a Get of a key that has no entry (never set, or deleted) returns
\* not-found, and the step that returns not-found changes neither the entry
\* store, nor the stored values, nor the queue, nor any caller's position.
C11_GetMissChangesNothing ==
  [][/\ \A p \in Procs, k \in AllKeys :
          (pc[p] = "idle" /\ values[k] = NoNode)
            => ~(pc'[p] = "get_lock" /\ arg'[p].key = k)
     /\ (out'.op = "get" /\ ~out'.found) =>
          /\ values[out'.key] = NoNode
          /\ UNCHANGED <<values, data, item, queue, value, pc, arg, lock>>]_vars

\* Set 1, Delete 1, then a Get of 1 has just returned not-found.
C11_Witness ==
  /\ Len(calls) = 3
  /\ calls[1].op = "set" /\ calls[1].key = 1
  /\ calls[2] = Call("delete", 1, NoVal, TRUE, NoVal)
  /\ calls[3] = Call("get", 1, NoVal, FALSE, NoVal)
  /\ out.op = "get" /\ ~out.found /\ out.key = 1

\* C12: the value a Size() call returns is the number of keys in the entry
\* store (the keys a Get would find), in every state any interleaving reaches.
C12_SizeIsEntryCount ==
  out.op = "size" => out.val = Cardinality(Stored(values))

\* C13: a Set that removes an entry because the size exceeded maxSize does not
\* return before the callback has been called with a count covering that entry:
\* the evicting step calls it, or the Set has a step still to take.
C13_EvictionNotified ==
  [][\A p \in Procs :
       (pc[p] = "set_push" /\ evicted' # NoKey)
         => \/ called'.made /\ called'.by = p /\ called'.count >= 1
            \/ pc'[p] # "idle"]_vars

\* The calls completed after call i, up to call j, are Gets and Sizes only.
OnlyReads(i, j) == \A m \in (i + 1)..j : calls[m].op \in {"get", "size"}

\* C14: once a Clean has completed with no other call in progress, and as long
\* as only Gets and Sizes are called after it, every Size returns 0 and every
\* Get returns not-found, whatever was inserted before the Clean.
C14_CleanEmptiesCache ==
  \A i \in 1..Len(calls) :
    (calls[i].op = "clean" /\ calls[i].res = 0) =>
      \A j \in (i + 1)..Len(calls) :
        OnlyReads(i, j) =>
          /\ calls[j].op = "size" => calls[j].res = 0
          /\ calls[j].op = "get" => ~calls[j].found

\* Set 1, Clean, then a Get of 1 has returned not-found.
C14_Witness ==
  /\ Len(calls) = 3
  /\ calls[1].op = "set" /\ calls[1].key = 1
  /\ calls[2].op = "clean" /\ calls[2].res = 0
  /\ calls[3] = Call("get", 1, NoVal, FALSE, NoVal)

\* A step of a Clean of caller p.
CleanStep(p) == pc[p] # pc'[p] /\ (pc[p] = "clean" \/ pc'[p] = "clean")

\* C15: with a callback set, a sweep pass ends its scan with the callback still
\* to be called, then calls it once with the number of entries the scan removed
\* (0 when it removed none) and goes back to waiting; the sweeper calls the
\* callback at no other point; and no step of a Clean calls the callback.
C15_SweepNotifiesOnceCleanNever ==
  [][/\ (PassEnds /\ deleteCallback) =>
          /\ spc' = "cb"
          /\ deleted' = Cardinality(Stored(values) \ Stored(values'))
          /\ ~called'.made
     /\ (spc = "cb" /\ spc' # "cb") =>
          /\ called' = [by |-> Sweeper, made |-> TRUE, count |-> deleted]
          /\ spc' = "wait"
     /\ (called'.made /\ called'.by = Sweeper) => spc = "cb" /\ spc' = "wait"
     /\ \A p \in Procs : CleanStep(p) => ~called'.made]_vars

\* A pass that removed entries has just called the callback with their number.
C15_Witness == called.made /\ called.by = Sweeper /\ called.count >= 1

\* The keys of the queue's nodes, front first.
QueueKeys(q, it) == [i \in 1..Len(q) |-> it[q[i]].key]

\* C16: a Set of a key that has an entry replaces the entry's value, moves its
\* node to the front and returns: the queue holds the same nodes, the others in
\* the order they had, the stored keys and the other entries' values are the
\* same, and nothing is evicted, whatever the size of the cache.
C16_SetOfStoredKeyInPlace ==
  [][\A p \in Procs :
       (pc[p] = "set_check" /\ pc'[p] # "set_check" /\ values[arg[p].key] # NoNode) =>
         LET k == arg[p].key
         IN /\ pc'[p] = "idle"
            /\ Stored(values') = Stored(values)
            /\ data'[values'[k]] = arg[p].val
            /\ \A j \in Stored(values) \ {k} : data'[values'[j]] = data[values[j]]
            /\ Len(queue') = Len(queue)
            /\ Head(queue') = values'[k]
            /\ QueueKeys(queue', item') =
                 <<k>> \o QueueKeys(Remove(queue, values[k]), item)
            /\ evicted' = NoKey]_vars

\* A full cache: a Set of the key at the back of the queue has just returned,
\* the key is now at the front with the new value and the other key kept its own.
C16_Witness ==
  /\ out.op = "set" /\ out.found
  /\ Len(queue) = maxSize
  /\ maxSize >= 2
  /\ item[Head(queue)].key = out.key
  /\ Head(touched) = out.key
  /\ data[Head(queue)] = 2
  /\ data[Back(queue)] = 1

\* C17: a Set of a new key that completes removes no entry when the entries
\* with the new one are at most maxSize, and otherwise removes exactly one
\* entry, the one whose node is at the queue's back, under any interleaving.
C17_SetRemovesAtMostTheBack ==
  [][\A p \in Procs :
       (pc[p] = "set_push" /\ pc'[p] = "idle") =>
         LET with == Stored(values) \cup {arg[p].key}
             removed == with \ Stored(values')
         IN /\ Stored(values') \subseteq with
            /\ IF Cardinality(with) <= maxSize
                 THEN removed = {}
                 ELSE /\ Cardinality(removed) = 1
                      /\ \A k \in removed : values[k] = Back(queue)]_vars

\* C18: the expiry of an entry is the time its creating Set read plus
\* defaultTTL, a time no later than its insertion, and stays what it is as long
\* as the entry is stored: no Get, no Set of the stored key and no other step
\* changes it.
C18_ExpiryFixedAtCreation ==
  [][/\ \A p \in OneCaller :
          /\ (pc[p] = "set_check" /\ pc'[p] = "set_lock2") => ttl'[p] = now + defaultTTL
          /\ (pc[p] = "set_push" /\ pc'[p] # "set_push") =>
               /\ arg[p].key \notin Stored(values)
               /\ arg[p].key \in Stored(values') =>
                    /\ item'[values'[arg[p].key]].ttl = ttl[p]
                    /\ ttl[p] <= now + defaultTTL
     /\ \A k \in Stored(values) \cap Stored(values') :
          item'[values'[k]].ttl = item[values[k]].ttl]_vars

\* A Set of a stored key has just returned at a time after the entry's
\* creation: the entry has the expiry of its creation, not one counted from now.
C18_Witness ==
  /\ out.op = "set" /\ out.found
  /\ defaultTTL >= 0
  /\ item[values[out.key]].ttl < now + defaultTTL

\* C19: whenever the lock is free, every key of the entry store points to a
\* node that is in the queue and carries that key, so the queue is at least as
\* long as the number of stored keys; under any interleaving of Get, Set,
\* Delete, Clean and sweep passes.
C19_EntriesAreQueued ==
  lock = Free =>
    /\ \A k \in Stored(values) : InQueue(queue, values[k]) /\ item[values[k]].key = k
    /\ Len(queue) >= Cardinality(Stored(values))

\* The queue holds a node that is no entry's (left by racing Sets or a late
\* Delete) beside the node of a stored key.
C19_Witness ==
  /\ lock = Free
  /\ Stored(values) # {}
  /\ Len(queue) > Cardinality(Stored(values))

\* C20: the eviction callback is never invoked while the invoking goroutine
\* holds the cache lock, in Delete and in the sweep pass alike: the lock is at
\* most held by another goroutine, so a callback that takes it is not stopped
\* by its own caller.
C20_CallbackOutsideLock ==
  [][/\ called'.made => lock # called'.by /\ lock' # called'.by
     /\ \A p \in Procs : (pc[p] = "del_cb" /\ pc'[p] # "del_cb") =>
          called'.made /\ called'.by = p /\ lock # p
     /\ (spc = "cb" /\ spc' # "cb") =>
          called'.made /\ called'.by = Sweeper /\ lock # Sweeper]_vars

\* The callback of a Delete is invoked while the sweeper holds the lock.
C20_Witness == called.made /\ called.by \in Procs /\ lock = Sweeper
====
